---- MODULE Spec2Model ----
(***************************************************************************)
(* LiveAudioComponent of src/index.tsx (lines 127-250): the realtime audio *)
(* bridge, the PCM codec helpers (lines 81-123) it uses, and the image     *)
(* component CharacterImage (lines 252-293).                               *)
(*                                                                         *)
(* Every call of startSession that passes its guard gets an identifier     *)
(* i \in Starts.  The closure of that call owns inputCtx, outputCtx, the   *)
(* MediaStream it was given, the script processor and sessionPromise; the  *)
(* component owns isRecording, audioContexts, session, stream,             *)
(* nextStartTime and volume.  JavaScript runs one task at a time and       *)
(* drains the microtask queue before the next task: every action below is  *)
(* one task (or one microtask), and tasks wait while the continuations of  *)
(* onmessage (microtasks) are pending.                                     *)
(***************************************************************************)
EXTENDS Integers, Sequences, FiniteSets, TLC

\* ---- bounds of the model ----
MaxStarts == 2      \* startSession calls that pass the guard
MaxMsgs == 2        \* inbound messages carrying audio
MaxCapture == 2     \* onaudioprocess events
MaxClock == 2       \* largest value of an AudioContext's currentTime
MaxDur == 2         \* largest AudioBuffer.duration

Grid == 2           \* samples are multiples of 1 / (Grid * 32768)
MaxLooks == 2       \* distinct (character, mood) pairs CharacterImage is given
MaxGenerate == 3    \* calls of CharacterImage's generate

\* ---- constants of the program ----
Scale == 32768      \* data[i] * 32768 and dataInt16[...] / 32768.0
Int16Mod == 65536   \* an Int16Array element holds its value modulo 2^16

Starts == 1..MaxStarts
Durations == 1..MaxDur
Levels == {0, 255}        \* the least and the greatest average the analyser reports
Resources == {"mic", "input", "output", "session"}
Looks == 1..MaxLooks      \* the (character, mood) pairs

Max(a, b) == IF a >= b THEN a ELSE b

VARIABLES
  mounted,        \* the component is mounted (onUnmounted has not run)
  isRecording,    \* isRecording.value
  audioContexts,  \* audioContexts.value: the start whose contexts it holds, 0 = {}
  session,        \* session: the start whose Session it holds, 0 = null
  stream,         \* stream: the start whose MediaStream it holds, 0 = null
  nextStartTime,  \* nextStartTime
  volume,         \* volume.value * 255
  nstarts,        \* startSession calls that passed the guard so far
  pc,             \* where each startSession call stands
  inCtx, outCtx,  \* each call's inputCtx / outputCtx: "none", "open", "closed"
  mic,            \* each call's MediaStream: "none", "live", "stopped"
  conn,           \* each call's connection to the remote endpoint
  resolved,       \* sessionPromise of each call is resolved
  reactions,      \* callbacks waiting on each call's sessionPromise, in order
  wired,          \* scriptProcessor.onaudioprocess is set (onopen ran)
  captured,       \* onaudioprocess events of each call so far
  sent,           \* what each call's Session was handed, in order
  raf,            \* calls whose updateVolume has an animation frame requested
  clock,          \* outputCtx.currentTime of each call
  inflight,       \* onmessage handlers suspended at await decodeAudioData, in order
  nmsgs,          \* inbound audio messages so far
  ncaptured,      \* onaudioprocess events so far
  schedStart,     \* the time the last source.start on each call's outputCtx was given
  schedEnd,       \* the end of the frame that source.start scheduled
  again,          \* kinds of resource that got a release call when already released
  speakBy,        \* 'speaking-start' events emitted by each call's handlers
  stopped,        \* calls that were the current one when the owner stopped
  lastExit,       \* the last terminal handler: its kind and what it did, in order
  observe,        \* again, stopped and lastExit are being recorded
  sample,         \* one sample of a capture buffer, times Grid * 32768
  pcm,            \* the Int16Array element createBlob stored for it
  wire,           \* the base64 text of the element's two bytes (its sextets)
  heard,          \* the sample decodeAudioData produced, times 32768
  cstage,         \* how far the sample has travelled
  props,          \* CharacterImage: the (character, mood) pair of its props
  imageUrl,       \* imageUrl.value: the pair the image shown was made for, 0 = ''
  isLoading,      \* isLoading.value
  error,          \* error.value: the pair whose request failed, 0 = ''
  calls,          \* the pair each generate call built its prompt from, in call order
  awaiting        \* generate calls suspended at await generateImages

vars == <<mounted, isRecording, audioContexts, session, stream, nextStartTime,
          volume, nstarts, pc, inCtx, outCtx, mic, conn, resolved, reactions,
          wired, captured, sent, raf, clock, inflight, nmsgs, ncaptured,
          schedEnd, schedStart, again, speakBy, stopped, lastExit, observe,
          sample, pcm, wire, heard, cstage,
          props, imageUrl, isLoading, error, calls, awaiting>>

codecVars == <<sample, pcm, wire, heard, cstage>>

imageVars == <<props, imageUrl, isLoading, error, calls, awaiting>>

NoExit == [kind |-> "none", did |-> <<>>]

\* The component after setup (lines 135-140).
BridgeInit ==
  /\ mounted = TRUE
  /\ isRecording = FALSE
  /\ audioContexts = 0
  /\ session = 0
  /\ stream = 0
  /\ nextStartTime = 0
  /\ volume = 0
  /\ nstarts = 0
  /\ pc = [i \in Starts |-> "idle"]
  /\ inCtx = [i \in Starts |-> "none"]
  /\ outCtx = [i \in Starts |-> "none"]
  /\ mic = [i \in Starts |-> "none"]
  /\ conn = [i \in Starts |-> "none"]
  /\ resolved = [i \in Starts |-> FALSE]
  /\ reactions = [i \in Starts |-> <<>>]
  /\ wired = [i \in Starts |-> FALSE]
  /\ captured = [i \in Starts |-> 0]
  /\ sent = [i \in Starts |-> <<>>]
  /\ raf = {}
  /\ clock = [i \in Starts |-> 0]
  /\ inflight = <<>>
  /\ nmsgs = 0
  /\ ncaptured = 0
  /\ schedEnd = [i \in Starts |-> 0]
  /\ schedStart = [i \in Starts |-> 0]
  /\ again = {}
  /\ speakBy = [i \in Starts |-> 0]
  /\ stopped = {}
  /\ lastExit = NoExit

\* No sample is travelling.
CodecIdle ==
  /\ sample = 0 /\ pcm = 0 /\ wire = <<>> /\ heard = 0 /\ cstage = "idle"

\* CharacterImage after setup (lines 258-260), before onMounted.
ImageInit ==
  /\ imageUrl = 0 /\ isLoading = FALSE /\ error = 0
  /\ calls = <<>> /\ awaiting = {}

ImageIdle == ImageInit /\ props = 1

Init == BridgeInit /\ CodecIdle /\ ImageIdle /\ observe = TRUE

\* again, stopped and lastExit record what happened and are read by no
\* action: a specification that does not observe them leaves them as they are.
Kept(old, new) == IF observe THEN new ELSE old

\* A task runs only when no microtask is pending.
TaskTurn == inflight = <<>>

\* ---- cleanup (lines 142-149) ----
\* session?.close(): an open connection starts closing; its close event follows.
CloseConn(c) == IF c = "open" THEN "closing" ELSE c

CleanupConn(c0, s) == IF s = 0 THEN c0 ELSE [c0 EXCEPT ![s] = CloseConn(@)]

\* stream?.getTracks().forEach(t => t.stop())
CleanupMic(m0, st) == IF st = 0 THEN m0 ELSE [m0 EXCEPT ![st] = "stopped"]

\* audioContexts.value.input?.close(); audioContexts.value.output?.close()
CleanupCtx(x0, ac) == IF ac = 0 THEN x0 ELSE [x0 EXCEPT ![ac] = "closed"]

\* cleanup without its ?. guards: a release call on a null handle counts too.
CleanupAgainNull(c0, m0, in0, out0, s, st, ac) ==
  {r \in Resources :
     \/ r = "mic" /\ (st = 0 \/ m0[st] = "stopped")
     \/ r = "input" /\ (ac = 0 \/ in0[ac] = "closed")
     \/ r = "output" /\ (ac = 0 \/ out0[ac] = "closed")
     \/ r = "session" /\ (s = 0 \/ c0[s] = "closing")}
\* cleanup makes one release call on every handle that is not null: the kinds
\* of resource on which that call is not the first one.
CleanupAgain(c0, m0, in0, out0, s, st, ac) ==
  {r \in Resources :
     \/ r = "mic" /\ st # 0 /\ m0[st] = "stopped"
     \/ r = "input" /\ ac # 0 /\ in0[ac] = "closed"
     \/ r = "output" /\ ac # 0 /\ out0[ac] = "closed"
     \/ r = "session" /\ s # 0 /\ c0[s] = "closing"}

\* cleanup(), run on the connection, stream and context states c0, m0, in0, out0
\* with stream holding st.  It leaves stream and audioContexts as they are.
DoCleanup(c0, m0, in0, out0, st) ==
  /\ isRecording' = FALSE
  /\ conn' = CleanupConn(c0, session)
  /\ mic' = CleanupMic(m0, st)
  /\ inCtx' = CleanupCtx(in0, audioContexts)
  /\ outCtx' = CleanupCtx(out0, audioContexts)
  /\ again' = Kept(again, again \cup CleanupAgain(c0, m0, in0, out0, session, st,
                                                  audioContexts))
  /\ session' = 0
  /\ stream' = st

\* The start the owner's stop is about: the latest one, unless it has failed.
MarkStopped ==
  IF nstarts = 0 \/ pc[nstarts] \in {"failed", "denied"}
  THEN stopped
  ELSE stopped \cup {nstarts}

\* stopSession / the button while recording (lines 230, 236)
Cleanup ==
  /\ mounted /\ TaskTurn
  /\ DoCleanup(conn, mic, inCtx, outCtx, stream)
  /\ stopped' = Kept(stopped, MarkStopped)
  /\ UNCHANGED <<codecVars, imageVars, observe, mounted, audioContexts, nextStartTime, volume, nstarts, pc,
                 resolved, reactions, wired, captured, sent, raf, clock,
                 inflight, nmsgs, ncaptured, schedEnd, schedStart, speakBy, lastExit>>

\* onUnmounted(cleanup) (line 229)
Unmount ==
  /\ mounted /\ TaskTurn
  /\ mounted' = FALSE
  /\ DoCleanup(conn, mic, inCtx, outCtx, stream)
  /\ stopped' = Kept(stopped, MarkStopped)
  /\ UNCHANGED <<codecVars, imageVars, observe, audioContexts, nextStartTime, volume, nstarts, pc,
                 resolved, reactions, wired, captured, sent, raf, clock,
                 inflight, nmsgs, ncaptured, schedEnd, schedStart, speakBy, lastExit>>

\* ---- startSession (lines 151-227) ----
\* The catch block (lines 223-226): console.error, cleanup(); nothing is emitted.
CatchDid == <<"cleanup">>

\* Lines 152-159: the guard, the two AudioContext constructors (either may
\* throw), audioContexts.value, and the call of getUserMedia.
StartSession(fail) ==
  /\ mounted /\ TaskTurn
  /\ ~isRecording
  /\ nstarts < MaxStarts
  /\ LET i == nstarts + 1 IN
     /\ nstarts' = i
     /\ IF fail = "none"
        THEN /\ inCtx' = [inCtx EXCEPT ![i] = "open"]
             /\ outCtx' = [outCtx EXCEPT ![i] = "open"]
             /\ audioContexts' = i
             /\ pc' = [pc EXCEPT ![i] = "gum"]
             /\ UNCHANGED <<isRecording, conn, mic, again, session, stream, lastExit>>
        ELSE /\ DoCleanup(conn, mic,
                          IF fail = "output" THEN [inCtx EXCEPT ![i] = "open"] ELSE inCtx,
                          outCtx, stream)
             /\ pc' = [pc EXCEPT ![i] = "failed"]
             /\ lastExit' = Kept(lastExit, [kind |-> "ctor", did |-> CatchDid])
             /\ UNCHANGED audioContexts
  /\ UNCHANGED <<codecVars, imageVars, observe, mounted, nextStartTime, volume, resolved, reactions, wired,
                 captured, sent, raf, clock, inflight, nmsgs, ncaptured, schedEnd, schedStart,
                 speakBy, stopped>>

\* Line 152 when isRecording is true: return.
StartSessionReturn ==
  /\ mounted /\ TaskTurn
  /\ isRecording
  /\ UNCHANGED vars

\* Lines 159-221 when getUserMedia resolves: stream, the audio graph, the first
\* updateVolume() (lines 168-175), new GoogleGenAI (may throw) and
\* ai.live.connect, up to the await of sessionPromise.
GumResolve(i, throws, level) ==
  /\ TaskTurn
  /\ pc[i] = "gum"
  /\ IF isRecording
     THEN volume' = level /\ raf' = raf \cup {i}
     ELSE level = 0 /\ UNCHANGED <<volume, raf>>
  /\ IF throws
     THEN /\ DoCleanup(conn, [mic EXCEPT ![i] = "live"], inCtx, outCtx, i)
          /\ pc' = [pc EXCEPT ![i] = "failed"]
          /\ lastExit' = Kept(lastExit, [kind |-> "setup", did |-> CatchDid])
          /\ UNCHANGED reactions
     ELSE /\ stream' = i
          /\ mic' = [mic EXCEPT ![i] = "live"]
          /\ conn' = [conn EXCEPT ![i] = "connecting"]
          /\ reactions' = [reactions EXCEPT ![i] = <<<<"await", 0>>>>]
          /\ pc' = [pc EXCEPT ![i] = "handshake"]
          /\ UNCHANGED <<isRecording, inCtx, outCtx, again, session, lastExit>>
  /\ UNCHANGED <<codecVars, imageVars, observe, mounted, audioContexts, nextStartTime, nstarts, resolved, wired,
                 captured, sent, clock, inflight, nmsgs, ncaptured, schedEnd, schedStart,
                 speakBy, stopped>>

\* Line 159 when getUserMedia rejects (permission refused): the catch block.
GumReject(i) ==
  /\ TaskTurn
  /\ pc[i] = "gum"
  /\ DoCleanup(conn, mic, inCtx, outCtx, stream)
  /\ pc' = [pc EXCEPT ![i] = "denied"]
  /\ lastExit' = Kept(lastExit, [kind |-> "denied", did |-> CatchDid])
  /\ UNCHANGED <<codecVars, imageVars, observe, mounted, audioContexts, nextStartTime, volume, nstarts, resolved,
                 reactions, wired, captured, sent, raf, clock, inflight, nmsgs, ncaptured,
                 schedEnd, schedStart, speakBy, stopped>>

\* ---- sessionPromise and the callbacks given to ai.live.connect ----
\* sessionPromise.then(cb) / await sessionPromise on a pending promise: the
\* callback joins the promise's reactions, which run in registration order.
ThenRegisterFirst(q, cb) == <<cb>> \o q
ThenRegister(q, cb) == Append(q, cb)

\* What the reactions hand to the Session when the promise resolves, in order
\* (the await of line 221 hands it nothing: it stores the Session).
\* (a promise that dropped the callback onopen registered)
RunReactionsFramesOnly(q) == SelectSeq(q, LAMBDA cb : cb[1] = "frame")
RunReactions(q) == SelectSeq(q, LAMBDA cb : cb[1] # "await")

\* s.sendRealtimeInput / s.sendClientContent from a .then callback: at once
\* when the promise is resolved, else when it resolves.
HandToSession(i, cb) ==
  IF resolved[i]
  THEN sent' = [sent EXCEPT ![i] = Append(@, cb)] /\ UNCHANGED reactions
  ELSE reactions' = [reactions EXCEPT ![i] = ThenRegister(@, cb)] /\ UNCHANGED sent

\* onopen (lines 188-198)
OnOpen(i) ==
  /\ TaskTurn
  /\ conn[i] = "connecting"
  /\ conn' = [conn EXCEPT ![i] = "open"]
  /\ isRecording' = TRUE
  /\ wired' = [wired EXCEPT ![i] = TRUE]
  /\ HandToSession(i, <<"content", 0>>)
  /\ UNCHANGED <<codecVars, imageVars, observe, mounted, audioContexts, session, stream, nextStartTime, volume,
                 nstarts, pc, inCtx, outCtx, mic, resolved, captured, raf, clock,
                 inflight, nmsgs, ncaptured, schedEnd, schedStart, again, speakBy,
                 stopped, lastExit>>

\* sessionPromise resolves (the connection has opened): line 221 stores the
\* Session and startSession returns; then the callbacks registered by onopen
\* and onaudioprocess run.
PromiseResolve(i) ==
  /\ TaskTurn
  /\ pc[i] = "handshake"
  /\ conn[i] \in {"open", "closing", "errored", "closed"}
  /\ resolved' = [resolved EXCEPT ![i] = TRUE]
  /\ session' = i
  /\ pc' = [pc EXCEPT ![i] = "done"]
  /\ sent' = [sent EXCEPT ![i] = @ \o RunReactions(reactions[i])]
  /\ reactions' = [reactions EXCEPT ![i] = <<>>]
  /\ UNCHANGED <<codecVars, imageVars, observe, mounted, isRecording, audioContexts, stream, nextStartTime,
                 volume, nstarts, inCtx, outCtx, mic, conn, wired, captured, raf,
                 clock, inflight, nmsgs, ncaptured, schedEnd, schedStart, again, speakBy,
                 stopped, lastExit>>

\* sessionPromise rejects (handshake failure): the catch block.
HandshakeReject(i) ==
  /\ TaskTurn
  /\ pc[i] = "handshake"
  /\ conn[i] = "connecting"
  /\ DoCleanup([conn EXCEPT ![i] = "failed"], mic, inCtx, outCtx, stream)
  /\ pc' = [pc EXCEPT ![i] = "failed"]
  /\ lastExit' = Kept(lastExit, [kind |-> "handshake", did |-> CatchDid])
  /\ UNCHANGED <<codecVars, imageVars, observe, mounted, audioContexts, nextStartTime, volume, nstarts, resolved,
                 reactions, wired, captured, sent, raf, clock, inflight, nmsgs, ncaptured,
                 schedEnd, schedStart, speakBy, stopped>>

\* onerror (lines 212-216): console.error, emit('error'), cleanup().
OnError(i) ==
  /\ TaskTurn
  /\ conn[i] \in {"connecting", "open"}
  /\ DoCleanup([conn EXCEPT ![i] = "errored"], mic, inCtx, outCtx, stream)
  /\ lastExit' = Kept(lastExit, [kind |-> "onerror", did |-> <<"error", "cleanup">>])
  /\ UNCHANGED <<codecVars, imageVars, observe, mounted, audioContexts, nextStartTime, volume, nstarts, pc,
                 resolved, reactions, wired, captured, sent, raf, clock, inflight,
                 nmsgs, ncaptured, schedEnd, schedStart, speakBy, stopped>>

\* onclose (line 217): cleanup().  The close event of a connection that the
\* remote closed, that failed, or that cleanup's session.close() closed.
OnClose(i) ==
  /\ TaskTurn
  /\ conn[i] \in {"open", "closing", "errored"}
  /\ DoCleanup([conn EXCEPT ![i] = "closed"], mic, inCtx, outCtx, stream)
  /\ lastExit' = Kept(lastExit, [kind |-> "onclose", did |-> <<"cleanup">>])
  /\ UNCHANGED <<codecVars, imageVars, observe, mounted, audioContexts, nextStartTime, volume, nstarts, pc,
                 resolved, reactions, wired, captured, sent, raf, clock, inflight,
                 nmsgs, ncaptured, schedEnd, schedStart, speakBy, stopped>>

\* scriptProcessor.onaudioprocess (lines 190-194): one capture buffer.
AudioProcess(i) ==
  /\ TaskTurn
  /\ wired[i]
  /\ inCtx[i] = "open"
  /\ ncaptured < MaxCapture
  /\ ncaptured' = ncaptured + 1
  /\ captured' = [captured EXCEPT ![i] = @ + 1]
  /\ HandToSession(i, <<"frame", captured[i] + 1>>)
  /\ UNCHANGED <<codecVars, imageVars, observe, mounted, isRecording, audioContexts, session, stream,
                 nextStartTime, volume, nstarts, pc, inCtx, outCtx, mic, conn,
                 resolved, wired, raf, clock, inflight, nmsgs, schedEnd,
                 schedStart, again, speakBy, stopped, lastExit>>

\* ---- playback (onmessage, lines 199-211) ----
\* Line 203: nextStartTime = Math.max(nextStartTime, outputCtx.currentTime)
MarkerAtArrivalNow(marker, now) == now
MarkerAtArrival(marker, now) == Max(marker, now)

\* Line 202: emit('speaking-start'), on the count of the start's events.
SpeakingStartNever(n) == n
SpeakingStart(n) == n + 1

\* onmessage up to the await of decodeAudioData (lines 200-204).
OnMessage(i, audio, d) ==
  /\ conn[i] \in {"open", "closing"}
  /\ IF audio
     THEN /\ nmsgs < MaxMsgs
          /\ nmsgs' = nmsgs + 1
          /\ speakBy' = [speakBy EXCEPT ![i] = SpeakingStart(@)]
          /\ nextStartTime' = MarkerAtArrival(nextStartTime, clock[i])
          /\ inflight' = Append(inflight, [s |-> i, dur |-> d, now |-> clock[i]])
     ELSE /\ d = 1
          /\ UNCHANGED <<nmsgs, speakBy, nextStartTime, inflight>>
  /\ UNCHANGED <<codecVars, imageVars, observe, mounted, isRecording, audioContexts, session, stream, volume,
                 nstarts, pc, inCtx, outCtx, mic, conn, resolved, reactions,
                 wired, captured, sent, raf, clock, ncaptured, schedEnd,
                 schedStart, again, stopped, lastExit>>

\* onmessage after the await (lines 205-209): source.start(nextStartTime);
\* nextStartTime += audioBuffer.duration.  Continuations run in await order.
Resume ==
  /\ inflight # <<>>
  /\ LET h == Head(inflight)
         start == nextStartTime
     IN /\ schedStart' = [schedStart EXCEPT ![h.s] = start]
        /\ schedEnd' = [schedEnd EXCEPT ![h.s] = start + h.dur]
        /\ nextStartTime' = start + h.dur
  /\ inflight' = Tail(inflight)
  /\ UNCHANGED <<codecVars, imageVars, observe, mounted, isRecording, audioContexts, session, stream, volume,
                 nstarts, pc, inCtx, outCtx, mic, conn, resolved, reactions,
                 wired, captured, sent, raf, clock, nmsgs, ncaptured, again, speakBy,
                 stopped, lastExit>>

\* outputCtx.currentTime advances while the context runs.  It is read by
\* onmessage only, so it is advanced only while messages can arrive.
Tick(i) ==
  /\ TaskTurn
  /\ outCtx[i] = "open"
  /\ conn[i] \in {"open", "closing"}
  /\ nmsgs < MaxMsgs
  /\ clock[i] < MaxClock
  /\ clock' = [clock EXCEPT ![i] = @ + 1]
  /\ UNCHANGED <<codecVars, imageVars, observe, mounted, isRecording, audioContexts, session, stream,
                 nextStartTime, volume, nstarts, pc, inCtx, outCtx, mic, conn,
                 resolved, reactions, wired, captured, sent, raf, inflight, nmsgs, ncaptured,
                 schedEnd, schedStart, again, speakBy, stopped, lastExit>>

\* ---- level metering (updateVolume, lines 168-174) on an animation frame ----
AnimationFrame(i, level) ==
  /\ TaskTurn
  /\ i \in raf
  /\ IF isRecording
     THEN volume' = level /\ UNCHANGED raf
     ELSE level = 0 /\ raf' = raf \ {i} /\ UNCHANGED volume
  /\ UNCHANGED <<codecVars, imageVars, observe, mounted, isRecording, audioContexts, session, stream,
                 nextStartTime, nstarts, pc, inCtx, outCtx, mic, conn, resolved,
                 reactions, wired, captured, sent, clock, inflight, nmsgs, ncaptured,
                 schedEnd, schedStart, again, speakBy, stopped, lastExit>>

\* ---- the PCM codec (lines 81-123) ----
\* Storing a number in an Int16Array: truncate toward zero, then wrap modulo 2^16.
Trunc(n, d) == IF n >= 0 THEN n \div d ELSE -((-n) \div d)
ToInt16(v) == LET m == v % Int16Mod IN IF 2 * m >= Int16Mod THEN m - Int16Mod ELSE m

\* Line 117: int16[i] = data[i] * 32768.  The sample is k / (Grid * Scale), so
\* the product is k / Grid.
FloatToInt16(k) == ToInt16(Trunc(k, Grid))

\* new Uint8Array(int16.buffer): the element's two bytes, low byte first.
BytesOf(v) == LET u == v % Int16Mod IN <<u % 256, u \div 256>>

\* new Int16Array(data.buffer) (line 101): the element two bytes hold.
Int16Of(b) == ToInt16(b[1] + 256 * b[2])

\* encode (lines 91-98): btoa of two bytes is three sextets and one '='.
Encode(b) ==
  LET n == b[1] * 65536 + b[2] * 256
  IN <<n \div 262144, (n \div 4096) % 64, (n \div 64) % 64>>

\* decode (lines 81-89): atob of three sextets and one '=' is two bytes.
Decode(t) ==
  LET n == t[1] * 262144 + t[2] * 4096 + t[3] * 64
  IN <<n \div 65536, (n \div 256) % 256>>

\* createBlob (lines 113-123) on a one-sample buffer.
CreateBlob ==
  /\ cstage = "input"
  /\ pcm' = FloatToInt16(sample)
  /\ wire' = Encode(BytesOf(FloatToInt16(sample)))
  /\ cstage' = "encoded"
  /\ UNCHANGED <<sample, heard>>

\* decodeAudioData(decode(data), ...) (lines 100-111, 204) on that text:
\* channelData[i] = dataInt16[i] / 32768.0.
DecodeAudioData ==
  /\ cstage = "encoded"
  /\ heard' = Int16Of(Decode(wire))
  /\ cstage' = "decoded"
  /\ UNCHANGED <<sample, pcm, wire>>

bridgeVars == <<mounted, isRecording, audioContexts, session, stream, nextStartTime,
                volume, nstarts, pc, inCtx, outCtx, mic, conn, resolved, reactions,
                wired, captured, sent, raf, clock, inflight, nmsgs, ncaptured,
                schedEnd, schedStart, again, speakBy, stopped, lastExit, observe>>

Codec ==
  \/ CreateBlob /\ UNCHANGED <<bridgeVars, imageVars>>
  \/ DecodeAudioData /\ UNCHANGED <<bridgeVars, imageVars>>

\* Every sample of the valid range [-1.0, 1.0] on the grid.
InitCodec ==
  /\ BridgeInit /\ ImageIdle /\ observe = FALSE
  /\ sample \in (-(Grid * Scale))..(Grid * Scale)
  /\ pcm = 0 /\ wire = <<>> /\ heard = 0 /\ cstage = "input"

SpecCodec == InitCodec /\ [][Codec]_vars

\* The bridge's life cycle: the owner's calls and the session's callbacks.
Lifecycle ==
  \/ \E fail \in {"none", "input", "output"} : StartSession(fail)
  \/ StartSessionReturn
  \/ Cleanup
  \/ Unmount
  \/ \E i \in Starts, throws \in BOOLEAN, level \in Levels : GumResolve(i, throws, level)
  \/ \E i \in Starts : GumReject(i)
  \/ \E i \in Starts : OnOpen(i)
  \/ \E i \in Starts : PromiseResolve(i)
  \/ \E i \in Starts : HandshakeReject(i)
  \/ \E i \in Starts : OnError(i)
  \/ \E i \in Starts : OnClose(i)
  \/ \E i \in Starts, level \in Levels : AnimationFrame(i, level)

\* The capture path.
Capture == \E i \in Starts : AudioProcess(i)

\* The playback path.
Playback ==
  \/ \E i \in Starts, audio \in BOOLEAN, d \in Durations : OnMessage(i, audio, d)
  \/ Resume
  \/ \E i \in Starts : Tick(i)

Next == Lifecycle \/ Capture \/ Playback

Spec == Init /\ [][Next]_vars

\* The life cycle alone: capture and playback change none of its variables.
SpecLifecycle == Init /\ [][Lifecycle]_vars

\* The life cycle with the capture path, and with the playback path.
InitUnobserved == BridgeInit /\ CodecIdle /\ ImageIdle /\ observe = FALSE
SpecCapture == InitUnobserved /\ [][Lifecycle \/ Capture]_vars
SpecPlayback == InitUnobserved /\ [][Lifecycle \/ Playback]_vars

\* ---- CharacterImage (lines 252-293) ----
\* generate up to its first await (lines 263-274) with the props holding pair
\* p: the three refs are reset, the prompt is built from p, and the call
\* suspends at await generateImages; when new GoogleGenAI throws (line 273)
\* the catch and finally blocks run at once.
Generate(p, throws) ==
  /\ Len(calls) < MaxGenerate
  /\ calls' = Append(calls, p)
  /\ imageUrl' = 0
  /\ IF throws
     THEN error' = p /\ isLoading' = FALSE /\ UNCHANGED awaiting
     ELSE error' = 0 /\ isLoading' = TRUE /\ awaiting' = awaiting \cup {Len(calls) + 1}

\* onMounted(generate) (line 289)
OnMounted(throws) ==
  /\ calls = <<>>
  /\ Generate(props, throws)
  /\ UNCHANGED <<props, bridgeVars, codecVars>>

\* watch(() => [props.character, props.mood], generate) (line 290): the
\* owner changes the character or the mood of the mounted component.
Watch(p, throws) ==
  /\ calls # <<>>
  /\ p # props
  /\ props' = p
  /\ Generate(p, throws)
  /\ UNCHANGED <<bridgeVars, codecVars>>

\* The Retry button, shown while error is not empty (lines 299-302).
Retry(throws) ==
  /\ error # 0
  /\ Generate(props, throws)
  /\ UNCHANGED <<props, bridgeVars, codecVars>>

\* generate after its await (lines 279-286) for call c: the response carries
\* an image, carries none, or the request failed; then isLoading = false.
Respond(c, outcome) ==
  /\ c \in awaiting
  /\ awaiting' = awaiting \ {c}
  /\ imageUrl' = (IF outcome = "image" THEN calls[c] ELSE imageUrl)
  /\ error' = (IF outcome = "error" THEN calls[c] ELSE error)
  /\ isLoading' = FALSE
  /\ UNCHANGED <<props, calls, bridgeVars, codecVars>>

Image ==
  \/ \E throws \in BOOLEAN : OnMounted(throws)
  \/ \E p \in Looks, throws \in BOOLEAN : Watch(p, throws)
  \/ \E throws \in BOOLEAN : Retry(throws)
  \/ \E c \in 1..MaxGenerate, outcome \in {"image", "empty", "error"} : Respond(c, outcome)

\* CharacterImage mounted with any pair.
InitImage ==
  /\ BridgeInit /\ CodecIdle /\ observe = FALSE
  /\ ImageInit /\ props \in Looks

SpecImage == InitImage /\ [][Image]_vars

\* ---- the claims ----
\* The starts whose resource f is in state v, among those that constructed
\* both of their contexts.
Alive(f, v) == {i \in Starts : f[i] = v /\ outCtx[i] # "none"}

\* C1: at any time at most one capture context, at most one playback context,
\* at most one microphone stream and at most one remote session are alive,
\* also when startSession is called while an earlier call is still waiting.
C1_AtMostOneAlive ==
  /\ Cardinality(Alive(inCtx, "open")) <= 1
  /\ Cardinality(Alive(outCtx, "open")) <= 1
  /\ Cardinality(Alive(mic, "live")) <= 1
  /\ Cardinality(Alive(conn, "open")) <= 1

\* startSession has returned: nothing of the call is still to run.
Settled(i) == pc[i] \in {"done", "failed", "denied"}
HoldsNothing(i) ==
  /\ mic[i] # "live"
  /\ inCtx[i] # "open"
  /\ outCtx[i] # "open"
  /\ conn[i] # "open"

\* C2: once the owner has stopped (or unmounted) the bridge, whatever state the
\* current start was in, no resource of that start remains alive when the
\* start has run to its end: tracks stopped, both contexts closed, session closed.
C2_StopReleasesAll == \A i \in stopped : Settled(i) => HoldsNothing(i)

\* C3: no resource receives a release call (track.stop, AudioContext.close,
\* session.close) after it has been released: each is released exactly once,
\* and a second stop makes no release call on a released resource.
C3_ReleasedOnce == again = {}

ErrorsIn(did) == Len(SelectSeq(did, LAMBDA e : e = "error"))

\* C4: when getUserMedia is refused, the start opens no session, emits
\* 'speaking-start' never, and its handler emits 'error' exactly once.
C4_DenialEmitsErrorOnce ==
  \A i \in Starts :
    pc[i] = "denied" =>
      /\ conn[i] = "none"
      /\ speakBy[i] = 0
      /\ lastExit.kind = "denied" => ErrorsIn(lastExit.did) = 1

\* C5: a remote error, a remote close and a handshake failure are handled
\* alike: cleanup runs first, then 'error' is emitted once.
C5_TeardownThenNotify ==
  lastExit.kind \in {"onerror", "onclose", "handshake"} =>
    lastExit.did = <<"cleanup", "error">>

\* A step in which a suspended onmessage handler calls source.start.
ResumeStep == inflight # <<>> /\ inflight' = Tail(inflight)

\* C6: on one session's playback context, every frame is given a start time
\* that is at least the start time of the frame scheduled before it and at
\* least that frame's end (its start plus its duration): no two frames overlap.
C6_NoOverlap ==
  [][ResumeStep =>
       LET i == Head(inflight).s
       IN /\ schedStart'[i] >= schedStart[i]
          /\ schedStart'[i] >= schedEnd[i]]_vars

\* Two frames of one session have been scheduled, the second after the first.
C6_Witness ==
  \E i \in Starts : speakBy[i] >= 2 /\ inflight = <<>> /\ schedStart[i] >= 1

\* Start i is the current one and every other start has been released: its
\* playback context is not open and its connection is not open.
OnlySession(i) ==
  /\ audioContexts = i
  /\ \A j \in Starts \ {i} : outCtx[j] # "open" /\ conn[j] \notin {"connecting", "open"}

\* C7: a frame is scheduled at exactly max(the end of the frames already
\* scheduled on its playback context, that context's clock), the marker then
\* being that start plus the duration; the first frame of a session started
\* after an earlier one was stopped starts at the new context's clock.
C7_StartIsMaxOfEndAndClock ==
  [][ResumeStep /\ OnlySession(Head(inflight).s) =>
       LET h == Head(inflight)
       IN /\ schedStart'[h.s] = Max(schedEnd[h.s], h.now)
          /\ nextStartTime' = schedStart'[h.s] + h.dur]_vars

Frames(q) == SelectSeq(q, LAMBDA cb : cb[1] = "frame")

\* C8: the frames handed to the session and those waiting for the promise
\* are, in this order, the captured frames 1, 2, ... in capture order: none
\* is handed over twice, skipped or overtaken.
C8_CaptureOrder ==
  \A i \in Starts :
    Frames(sent[i]) \o Frames(reactions[i]) = [k \in 1..captured[i] |-> <<"frame", k>>]

\* Two captured frames have been handed to the session, after the first turn.
C8_Witness ==
  \E i \in Starts : sent[i] = <<<<"content", 0>>, <<"frame", 1>>, <<"frame", 2>>>>

Abs(n) == IF n >= 0 THEN n ELSE -n

\* C9: for every sample of [-1.0, 1.0], encoding as createBlob does and
\* decoding as decodeAudioData does gives a value within 1/32768 of the sample.
C9_RoundTripWithinOneStep ==
  cstage = "decoded" => Abs(heard * Grid - sample) <= Grid

\* The bridge is started: it is recording, or a startSession call is waiting
\* for the microphone or the handshake and still holds its contexts.
Started ==
  \/ isRecording
  \/ \E i \in Starts : pc[i] \in {"gum", "handshake"} /\ audioContexts = i /\ inCtx[i] = "open"

\* C10: startSession called while the bridge is started is a no-op: no call
\* passes the guard, so no context, stream or session is opened and no handle,
\* flag or marker changes.
C10_StartWhileStartedIsNoOp ==
  [][Started => nstarts' = nstarts]_vars

\* The bridge as setup leaves it: no flag set, no handle held, nothing opened.
Idle ==
  /\ ~isRecording /\ audioContexts = 0 /\ session = 0 /\ stream = 0
  /\ nextStartTime = 0 /\ volume = 0 /\ raf = {}
  /\ \A i \in Starts :
       /\ pc[i] = "idle" /\ conn[i] = "none" /\ mic[i] = "none"
       /\ inCtx[i] = "none" /\ outCtx[i] = "none"

\* C11: as long as startSession has never been called, whatever number of
\* stops (cleanup, or the cleanup of unmount) has run, the bridge is idle, no
\* release call was made, and neither 'error' nor 'speaking-start' was emitted.
C11_StopBeforeStartIsNoOp ==
  nstarts = 0 =>
    /\ Idle
    /\ again = {}
    /\ lastExit = NoExit
    /\ \A i \in Starts : speakBy[i] = 0

\* cleanup has run (on unmount) on a bridge that was never started.
C11_Witness == ~mounted /\ nstarts = 0

Contents(q) == SelectSeq(q, LAMBDA cb : cb[1] = "content")

\* What the session of start i was or will be handed: nothing before onopen,
\* the initial utterance once from onopen on, and handed over once the
\* promise has resolved.
UtteranceOnce(i) ==
  /\ ~wired[i] => sent[i] = <<>> /\ Contents(reactions[i]) = <<>> /\ Frames(reactions[i]) = <<>>
  /\ Len(Contents(sent[i])) + Len(Contents(reactions[i])) = (IF wired[i] THEN 1 ELSE 0)
  /\ wired[i] /\ resolved[i] => Contents(sent[i]) = <<<<"content", 0>>>>

\* A step in which the onopen of some start runs.
OpenStep == \E i \in Starts : ~wired[i] /\ wired'[i]

AudioStep == nmsgs' = nmsgs + 1

\* The audio messages of start i whose frame is not scheduled yet.
Pending(i) == Len(SelectSeq(inflight, LAMBDA h : h.s = i))

\* C13: the step that receives an audio message emits 'speaking-start' once,
\* for the start the message belongs to, and schedules nothing (the frame is
\* left pending and is scheduled in a later step); no other step, the receipt
\* of a message without audio data and the scheduling of a frame included,
\* emits it; so every pending frame has had its event.
C13_SpeakingStartOncePerAudio ==
  /\ [](\A i \in Starts : Pending(i) <= speakBy[i])
  /\ [][IF AudioStep
        THEN /\ \E i \in Starts :
                  /\ speakBy' = [speakBy EXCEPT ![i] = @ + 1]
                  /\ Pending(i)' = Pending(i) + 1
             /\ UNCHANGED <<schedStart, schedEnd>>
        ELSE UNCHANGED speakBy]_vars

\* One audio message has come, its event was emitted and its frame scheduled.
C13_Witness ==
  \E i \in Starts : nmsgs = 1 /\ speakBy[i] = 1 /\ inflight = <<>> /\ schedEnd[i] >= 1

\* C14: while the bridge is running (isRecording is true) the updateVolume
\* loop is alive: an animation frame is requested on which it samples the
\* analyser and writes the level to volume.
C14_MeteringWhileRunning == isRecording => raf # {}

\* The microphone stream and both contexts that the component's handles hold
\* are open.
CurrentOpen ==
  /\ stream # 0 /\ mic[stream] = "live"
  /\ audioContexts # 0
  /\ inCtx[audioContexts] = "open" /\ outCtx[audioContexts] = "open"

\* C15: while the latest start is one the owner has stopped (no startSession
\* since), isRecording is false, whatever callbacks of that start arrive; and
\* whenever isRecording is true the microphone stream and both contexts of
\* the current start are open.
C15_NoRecordingAfterStop ==
  /\ nstarts \in stopped => ~isRecording
  /\ isRecording => CurrentOpen

\* A step in which the onclose runs that follows the session.close() a
\* cleanup made on the session of start a.
LateClose(a) == conn[a] = "closing" /\ conn'[a] = "closed"

\* C16: when the session of start a was stopped and startSession was called
\* again, the late onclose of a leaves what belongs to the new start as it
\* is: its contexts, its microphone stream, its connection, the session handle
\* when it holds the new session, and isRecording when the new start has set it.
C16_LateCloseLeavesNewSession ==
  [][\A a \in stopped :
       a < nstarts /\ LateClose(a) =>
         LET b == nstarts
         IN /\ inCtx'[b] = inCtx[b] /\ outCtx'[b] = outCtx[b]
            /\ mic'[b] = mic[b]
            /\ conn'[b] = conn[b]
            /\ session = b => session' = b
            /\ isRecording /\ wired[b] => isRecording']_vars

\* C17: when no generate call is in flight, what CharacterImage shows belongs
\* to the latest request: an image or an error is that of the (character,
\* mood) pair the props hold, whatever order the responses came in; and
\* isLoading is false only when no generate call is in flight.
C17_LatestRequestWins ==
  /\ awaiting = {} =>
       /\ imageUrl # 0 => imageUrl = props
       /\ error # 0 => error = props
  /\ ~isLoading => awaiting = {}

====
